---- MODULE Spec2Model ----
(***************************************************************************)
(* A model of the generator repository: cosmology/cosmology.py (Cosmology),*)
(* cosmology/element.py (Element, Luminary) and chronology/timeline.py     *)
(* (Timeline).                                                             *)
(*                                                                         *)
(* Units.  A sampled distance is a float; it is held here in thousandths   *)
(* of an AU (1.00 AU = 1000), so that absolute() and round(2) are real     *)
(* conversions.  After round(2) a distance is held in hundredths of an AU  *)
(* (1.00 AU = 100, 9.5 AU = 950).                                          *)
(***************************************************************************)
EXTENDS Integers, Sequences, FiniteSets, TLC

VARIABLES
    alive,         \* the Cosmology instances that have been constructed
    seed,          \* seed[i]: Cosmology.__seed of instance i
    rng,           \* rng[i]: state of the instance's Generator (self.rng)
    luminary,      \* luminary[i]: the list of Luminary of instance i
    number,        \* number[i]: the ndarray of numbers of instance i
    globalRandom,  \* state of numpy's global generator (random_sample)
    call,          \* the last Cosmology call: arguments, ledger before, outcome
    body,          \* the last Luminary constructed on its own
    value,         \* Timeline.__value, the current day
    count,         \* Timeline.__count, the next value of the counter
    event,         \* Timeline.event, one slot per day
    tcall          \* the last Timeline call: arguments, state before, outcome

vars == <<alive, seed, rng, luminary, number, globalRandom, call, body,
          value, count, event, tcall>>

cosmoVars == <<alive, seed, rng, luminary, number, globalRandom, call>>
timeVars == <<value, count, event, tcall>>

(***************************************************************************)
(* Bounds of the model.                                                    *)
(***************************************************************************)
MaxSeed == 7        \* explicit seeds are 0..MaxSeed
SeedBits == 5       \* width of a randomly assigned seed (32 in the code)
GlobalStates == 3   \* states of the global generator
MaxNumber == 3      \* longest ledger, one instance (Spec)
MaxNumberPair == 2  \* longest ledger, two instances (SpecPair)
MaxDay == 3         \* last day the Timeline progresses to
MaxDays == 2        \* largest argument of progress

Instances == {1, 2}
Seeds == 0..MaxSeed
Numbers == {3, 5}
PairNumbers == {3}
Names == {"luminary", "number", "Number", "LUMINARY", "seed", "rng", "bogus"}

NoSeed == -1        \* seed=None
NoResult == -1      \* a call that returned nothing

(***************************************************************************)
(* Helpers on sequences.                                                   *)
(***************************************************************************)
Range(s) == {s[k] : k \in 1..Len(s)}

Abs(x) == IF x < 0 THEN -x ELSE x

\* x put in its place in the ascending sequence s
Insert(x, s) ==
    SelectSeq(s, LAMBDA y : y <= x) \o <<x>> \o SelectSeq(s, LAMBDA y : y > x)

\* ndarray.sort(): s in ascending order
RECURSIVE SortAscending(_)
SortAscending(s) ==
    IF s = <<>> THEN <<>> ELSE Insert(Head(s), SortAscending(Tail(s)))

Occurrences(s, x) == Cardinality({k \in 1..Len(s) : s[k] = x})

(***************************************************************************)
(* The bit generator behind default_rng(seed).  numpy's PCG64 is a linear  *)
(* congruential generator on 128 bits with an output permutation; it is    *)
(* kept here as a linear congruential generator on 16 bits whose output is *)
(* the high byte of the state.  What the model keeps is that the stream is *)
(* a function of the seed alone and that every draw advances the state.    *)
(***************************************************************************)
Modulus == 65536
Multiplier == 157
Increment == 123
OutputShift == 256

Advance(st) == (Multiplier * st + Increment) % Modulus
Output(st) == st \div OutputShift

\* the states of the generator over k draws: before the first draw, after
\* it, ..., after the k-th
RECURSIVE States(_, _)
States(st, k) ==
    IF k = 0 THEN <<st>> ELSE <<st>> \o States(Advance(st), k - 1)

\* default_rng(seed=s) with every instance sharing the global generator
DefaultRngShared(s) == Advance(globalRandom)

\* default_rng(seed=s): the Generator's state is a function of the seed
DefaultRng(s) == Advance(s % Modulus)

\* Generator.integers(low, high) on one draw
RngIntegers(low, high, draw) == low + (draw % (high - low))

(***************************************************************************)
(* Luminary (element.py)                                                   *)
(***************************************************************************)
RefName == <<"orange", "red", "green", "blue", "white">>
RefValue == <<<<255, 165, 0>>, <<255, 0, 0>>, <<0, 255, 0>>, <<0, 0, 255>>,
              <<255, 255, 255>>>>

\* norm(value - rgb, axis=1), squared: the square root is strictly
\* increasing, and two distinct sums of squares below 2^18 never share a
\* double square root, so min() and == give the same index on the squares
Norm2(a, b) ==
    (a[1] - b[1]) * (a[1] - b[1]) + (a[2] - b[2]) * (a[2] - b[2])
        + (a[3] - b[3]) * (a[3] - b[3])

MinOf(S) == CHOOSE m \in S : \A x \in S : m <= x
MaxOf(S) == CHOOSE m \in S : \A x \in S : m >= x

\* where(distance == distance.min())[0], the indices of the minimum
Where(distance) ==
    {k \in 1..Len(distance) : distance[k] = MinOf(Range(distance))}

\* the classifier taking the last of the nearest reference colors
DescribeRgbLast(rgb) ==
    RefName[MaxOf(Where([k \in 1..Len(RefValue) |-> Norm2(RefValue[k], rgb)]))]

\* Luminary.__describe_rgb
DescribeRgb(rgb) ==
    LET distance == [k \in 1..Len(RefValue) |-> Norm2(RefValue[k], rgb)]
        closest == MinOf(Where(distance))
    IN  RefName[closest]

\* Luminary.__init__
Luminary(distance, visible, rgb) ==
    [distance |-> distance, visible |-> visible, rgb |-> rgb,
     color |-> DescribeRgb(rgb)]

NoBody == [distance |-> 0, visible |-> FALSE, rgb |-> <<0, 0, 0>>, color |-> ""]

(***************************************************************************)
(* Cosmology.__generate_luminaries (cosmology.py)                          *)
(***************************************************************************)
LowCount == 4
HighCount == 16
Sol == 0
Earth == 1000
VisibleLimit == 950
Orange == <<255, 165, 0>>
RgbSpan == 256

\* skewnorm.rvs(2, scale=1): the standard skew-normal deviate of one
\* draw, in thousandths; mostly positive, as the shape parameter 2 makes it
Deviate == <<-150, 60, 125, 250, 713, 1620>>

SkewNorm(scale, draw) == scale * Deviate[(draw % Len(Deviate)) + 1]

\* ndarray.round(2) of a non-negative value in thousandths, in hundredths:
\* numpy rounds half to even
Round2(x) ==
    LET q == x \div 10
        r == x % 10
    IN  IF r < 5 \/ (r = 5 /\ (q % 2) = 0) THEN q ELSE q + 1

\* n, scale = self.rng.integers(4, 16, 2)
SampleCount(st) == RngIntegers(LowCount, HighCount, Output(st))
SampleScale(st) == RngIntegers(LowCount, HighCount, Output(Advance(st)))

\* n += 1
BodyCount(st) == SampleCount(st) + 1

\* the draws __generate_luminaries makes: n and scale, n deviates, and
\* three color levels for each of the n + 1 bodies
DrawCount(st) == 2 + SampleCount(st) + 3 * BodyCount(st)

\* dist = skewnorm.rvs(2, size=n, scale=scale, random_state=self.rng),
\* the deviates being draws 3 .. n + 2 of the generator
Sampled(states) ==
    LET st == states[1]
    IN  SubSeq([k \in 1..SampleCount(st) |->
                    SkewNorm(SampleScale(st), Output(states[2 + k]))],
               1, SampleCount(st))

\* dist = append(dist, [0.00]); if 1.00 not in dist: append(dist, [1.00])
Anchored(dist) ==
    IF Earth \notin Range(Append(dist, Sol))
    THEN Append(Append(dist, Sol), Earth)
    ELSE Append(dist, Sol)

\* absolute(dist).round(2)
Rounded(dist) == SubSeq([k \in 1..Len(dist) |-> Round2(Abs(dist[k]))], 1, Len(dist))

\* dist = absolute(dist).round(2); dist.sort()
Distances(states) == SortAscending(Rounded(Anchored(Sampled(states))))

\* vis = dist <= 9.5
Visible(d) == d <= VisibleLimit

\* rgb = self.rng.integers(0, 255, size=(n, 3), endpoint=True), as drawn:
\* the draws that follow the deviates
SampledRgb(states) ==
    LET st == states[1]
        at(k) == Output(states[2 + SampleCount(st) + k]) % RgbSpan
    IN  SubSeq([k \in 1..BodyCount(st) |->
                    <<at(3 * k - 2), at(3 * k - 1), at(3 * k)>>],
               1, BodyCount(st))

\* the colors left as they were drawn
RgbAsDrawn(states) == SampledRgb(states)

\* rgb[0] = array([255, 165, 0])
Rgb(states) == [SampledRgb(states) EXCEPT ![1] = Orange]

\* [Luminary(distance=dist[i], visible=vis[i], rgb=rgb[i]) for i in range(n)]
Luminaries(dist, rgb, n) ==
    SubSeq([k \in 1..n |-> Luminary(dist[k], Visible(dist[k]), rgb[k])], 1, n)

\* Cosmology.__generate_luminaries, self.rng being in state st
GenerateLuminaries(st) ==
    Luminaries(Distances(States(st, DrawCount(st))),
               Rgb(States(st, DrawCount(st))), BodyCount(st))

\* the state of self.rng once the luminaries are generated
RngAfter(st) == States(st, DrawCount(st))[DrawCount(st) + 1]

\* the initial ledger counting every luminary
GenerateNumberAll(lum) == <<Len(lum)>>

\* Cosmology.__generate_number
GenerateNumber(lum) ==
    <<Cardinality({k \in 1..Len(lum) : lum[k].visible})>>

(***************************************************************************)
(* Cosmology (cosmology.py)                                                *)
(***************************************************************************)
NoCall ==
    [op |-> "", inst |-> 0, n |-> NoResult, name |-> "", before |-> <<>>,
     result |-> NoResult, error |-> ""]

\* int(random_sample(size=1)[0] * (2**32 - 1)): the sample is
\* globalRandom / GlobalStates, in [0, 1)
RandomSeed == (globalRandom * (2 ^ SeedBits - 1)) \div GlobalStates

\* Cosmology.__init__, once self.__seed is s
Initialize(i, given, s) ==
    /\ alive' = alive \cup {i}
    /\ seed' = [seed EXCEPT ![i] = s]
    /\ rng' = [rng EXCEPT ![i] = RngAfter(DefaultRng(s))]
    /\ luminary' = [luminary EXCEPT ![i] = GenerateLuminaries(DefaultRng(s))]
    /\ number' = [number EXCEPT ![i] = GenerateNumber(luminary'[i])]
    /\ call' = [NoCall EXCEPT !.op = "Cosmology", !.inst = i, !.n = given,
                              !.error = "none"]

\* Cosmology(seed)
Construct(i, s) ==
    /\ Initialize(i, s, s)
    /\ UNCHANGED <<globalRandom, body, timeVars>>

\* Cosmology(): the seed is drawn from numpy's global generator
ConstructRandom(i) ==
    /\ Initialize(i, NoSeed, RandomSeed)
    /\ globalRandom' = (globalRandom + 1) % GlobalStates
    /\ UNCHANGED <<body, timeVars>>

\* append(self.number, n) skipping a value already there
AppendedOnce(arr, n) == IF n \in Range(arr) THEN arr ELSE Append(arr, n)

\* append(self.number, n)
Appended(arr, n) == Append(arr, n)

\* self.number[self.number != n] dropping one occurrence only
FilteredFirst(arr, n) ==
    IF n \notin Range(arr) THEN arr
    ELSE LET k == MinOf({j \in 1..Len(arr) : arr[j] = n})
         IN  SubSeq(arr, 1, k - 1) \o SubSeq(arr, k + 1, Len(arr))

\* self.number[self.number != n]
Filtered(arr, n) == SelectSeq(arr, LAMBDA x : x # n)

\* Cosmology.add_number
AddNumber(i, n) ==
    /\ i \in alive
    /\ number' = [number EXCEPT ![i] = Appended(number[i], n)]
    /\ call' = [NoCall EXCEPT !.op = "add_number", !.inst = i, !.n = n,
                              !.before = number[i], !.error = "none"]
    /\ UNCHANGED <<alive, seed, rng, luminary, globalRandom, body, timeVars>>

\* Cosmology.remove_number
RemoveNumber(i, n) ==
    /\ i \in alive
    /\ number' = [number EXCEPT ![i] = Filtered(number[i], n)]
    /\ call' = [NoCall EXCEPT !.op = "remove_number", !.inst = i, !.n = n,
                              !.before = number[i], !.error = "none"]
    /\ UNCHANGED <<alive, seed, rng, luminary, globalRandom, body, timeVars>>

\* attribute.lower() left out
LowerSkipped(name) == name

\* attribute.lower(), on the names of the model
Lower(name) ==
    CASE name = "Number" -> "number"
      [] name = "LUMINARY" -> "luminary"
      [] OTHER -> name

\* type(getattr(self, attr)); "missing" when getattr raises AttributeError
AttrType(attr) ==
    CASE attr = "luminary" -> "list"
      [] attr = "number" -> "ndarray"
      [] attr = "seed" -> "int"
      [] attr = "rng" -> "Generator"
      [] OTHER -> "missing"

\* what count_attribute returns or raises
Counted(i, name) ==
    LET attr == Lower(name)
    IN  CASE AttrType(attr) = "list" ->
                [result |-> Len(luminary[i]), error |-> "none"]
          [] AttrType(attr) = "ndarray" ->
                [result |-> Len(number[i]), error |-> "none"]
          [] OTHER ->
                [result |-> NoResult, error |-> "AttributeError"]

\* Cosmology.count_attribute
CountAttribute(i, name) ==
    /\ i \in alive
    /\ call' = [NoCall EXCEPT !.op = "count_attribute", !.inst = i,
                              !.name = name, !.before = number[i],
                              !.result = Counted(i, name).result,
                              !.error = Counted(i, name).error]
    /\ UNCHANGED <<alive, seed, rng, luminary, number, globalRandom, body,
                   timeVars>>

(***************************************************************************)
(* A Luminary constructed on its own (element.py)                          *)
(***************************************************************************)
RgbLevels == {0, 100, 128, 165, 255}
DistanceLevels == {0, 951}

\* Luminary(distance, visible, rgb)
NewLuminary(distance, visible, rgb) ==
    /\ body' = Luminary(distance, visible, rgb)
    /\ UNCHANGED <<cosmoVars, timeVars>>

(***************************************************************************)
(* Timeline (timeline.py).  A value is held as its type and its elements;  *)
(* an element is named by its own type.                                    *)
(***************************************************************************)
Events == {"Event a", "Event b"}

None == [type |-> "NoneType", elems |-> <<>>]

Items ==
    {[type |-> "Event", elems |-> <<"Event a">>],
     [type |-> "Event", elems |-> <<"Event b">>],
     [type |-> "list", elems |-> <<"Event a", "Event b">>],
     [type |-> "list", elems |-> <<"int 1", "int 2">>],
     [type |-> "tuple", elems |-> <<"Event b", "Event a">>],
     [type |-> "int", elems |-> <<"int 1">>],
     None}

Keys == (0 - 1)..MaxDay

NoTimelineCall ==
    [op |-> "", key |-> 0, item |-> None, days |-> 0, event |-> <<>>,
     value |-> 0, result |-> None, error |-> ""]

\* self.event[key]: the position of a Python index, 0 when out of range
Position(key) ==
    IF key >= 0 /\ key < Len(event) THEN key + 1
    ELSE IF key < 0 /\ 0 - key <= Len(event) THEN Len(event) + key + 1
    ELSE 0

\* item if item_type == list else [item]
Stored(item) ==
    IF item.type = "list" THEN item ELSE [type |-> "list", elems |-> item.elems]

\* Timeline.__setitem__
SetItem(key, item) ==
    /\ IF item.type \in {"Event", "list"}
       THEN IF Position(key) # 0
            THEN /\ event' = [event EXCEPT ![Position(key)] = Stored(item)]
                 /\ tcall' = [NoTimelineCall EXCEPT
                                !.op = "setitem", !.key = key, !.item = item,
                                !.event = event, !.value = value,
                                !.error = "none"]
            ELSE /\ event' = event
                 /\ tcall' = [NoTimelineCall EXCEPT
                                !.op = "setitem", !.key = key, !.item = item,
                                !.event = event, !.value = value,
                                !.error = "IndexError"]
       ELSE /\ event' = event
            /\ tcall' = [NoTimelineCall EXCEPT
                           !.op = "setitem", !.key = key, !.item = item,
                           !.event = event, !.value = value,
                           !.error = "TypeError " \o item.type]
    /\ UNCHANGED <<value, count, cosmoVars, body>>

\* Timeline.__getitem__
GetItem(key) ==
    /\ tcall' = [NoTimelineCall EXCEPT
                   !.op = "getitem", !.key = key, !.event = event,
                   !.value = value,
                   !.result = IF Position(key) # 0 THEN event[Position(key)]
                              ELSE None,
                   !.error = IF Position(key) # 0 THEN "none" ELSE "IndexError"]
    /\ UNCHANGED <<value, count, event, cosmoVars, body>>

\* Timeline.progress: range(days) is empty for days <= 0
Progress(days) ==
    LET steps == IF days > 0 THEN days ELSE 0
    IN  /\ value + steps <= MaxDay
        /\ value' = IF steps > 0 THEN count + steps - 1 ELSE value
        /\ count' = count + steps
        /\ event' = event \o [k \in 1..steps |-> None]
        /\ tcall' = [NoTimelineCall EXCEPT
                       !.op = "progress", !.days = days, !.event = event,
                       !.value = value, !.error = "none"]
        /\ UNCHANGED <<cosmoVars, body>>

(***************************************************************************)
(* Specifications                                                          *)
(***************************************************************************)
Init ==
    /\ alive = {}
    /\ seed = [i \in Instances |-> NoSeed]
    /\ rng = [i \in Instances |-> 0]
    /\ luminary = [i \in Instances |-> <<>>]
    /\ number = [i \in Instances |-> <<>>]
    /\ globalRandom \in 0..(GlobalStates - 1)
    /\ call = NoCall
    /\ body = NoBody
    /\ value = 0
    /\ count = 1
    /\ event = <<None>>
    /\ tcall = NoTimelineCall

\* add_number while the ledger is short of the bound
AddNumberPair(i, n) == Len(number[i]) < MaxNumberPair /\ AddNumber(i, n)
AddNumberOne(i, n) == Len(number[i]) < MaxNumber /\ AddNumber(i, n)

\* one Cosmology instance and its ledger
Next ==
    \/ \E s \in Seeds : Construct(1, s)
    \/ ConstructRandom(1)
    \/ \E n \in Numbers : AddNumberOne(1, n)
    \/ \E n \in Numbers : RemoveNumber(1, n)
    \/ \E name \in Names : CountAttribute(1, name)

Spec == Init /\ [][Next]_vars

\* two Cosmology instances and their ledgers
NextPair ==
    \/ \E i \in Instances, s \in Seeds : Construct(i, s)
    \/ \E i \in Instances : ConstructRandom(i)
    \/ \E i \in Instances, n \in PairNumbers : AddNumberPair(i, n)
    \/ \E i \in Instances, n \in PairNumbers : RemoveNumber(i, n)

SpecPair == Init /\ [][NextPair]_vars

\* Luminary instances constructed on their own
NextColor ==
    \E distance \in DistanceLevels, visible \in BOOLEAN,
       rgb \in RgbLevels \X RgbLevels \X RgbLevels :
        NewLuminary(distance, visible, rgb)

SpecColor == Init /\ [][NextColor]_vars

\* one Timeline
NextTimeline ==
    \/ \E days \in (0 - 1)..MaxDays : Progress(days)
    \/ \E key \in Keys, item \in Items : SetItem(key, item)
    \/ \E key \in Keys : GetItem(key)

SpecTimeline == Init /\ [][NextTimeline]_vars

(***************************************************************************)
(* Properties                                                              *)
(***************************************************************************)
\* the final sorted distance list of an instance seeded with s
FinalDistances(s) == Distances(States(DefaultRng(s), DrawCount(DefaultRng(s))))

\* the colors drawn for an instance seeded with s, before index 0 is forced
DrawnRgb(s) == SampledRgb(States(DefaultRng(s), DrawCount(DefaultRng(s))))

\* the number of luminaries of a list whose visible is true
VisibleCount(lum) == Cardinality({k \in 1..Len(lum) : lum[k].visible})

\* C1: every constructed Cosmology has exactly one Luminary per entry of
\* its final sorted distance list: the list of luminaries is as long as the
\* distance list, the k-th luminary stands at the k-th distance, and
\* count_attribute("luminary") returns that length.
OneBodyPerDistance ==
    \A i \in alive :
        /\ Len(luminary[i]) = Len(FinalDistances(seed[i]))
        /\ \A k \in 1..Len(luminary[i]) :
                luminary[i][k].distance = FinalDistances(seed[i])[k]
        /\ (call.op = "count_attribute" /\ call.inst = i
                /\ call.name = "luminary")
            => call.result = Len(FinalDistances(seed[i]))

\* C2: every constructed Cosmology holds at least one Luminary whose
\* distance is 1.00, whatever was sampled.
HomeBodyPresent ==
    \A i \in alive :
        \E k \in 1..Len(luminary[i]) :
            luminary[i][k].distance = Round2(Abs(Earth))

\* C3 as stated: from the initial ledger {v}, add_number(3) makes the count
\* 2, and add_number(3) again followed by remove_number(3) leaves exactly {v}.
LedgerRoundTrip ==
    \A i \in alive :
        LET v == VisibleCount(luminary[i])
        IN  /\ (call.inst = i /\ call.op = "add_number" /\ call.n = 3
                    /\ call.before = <<v>>)
                => Len(number[i]) = 2
            /\ (call.inst = i /\ call.op = "remove_number" /\ call.n = 3
                    /\ call.before = <<v, 3, 3>>)
                => number[i] = <<v>>

\* C3 as amended: from the initial ledger {v}, add_number(3) makes the count
\* 2, and add_number(3) again followed by remove_number(3) leaves no 3 in
\* the ledger: exactly {v} when v is not 3, and the empty ledger when v is 3.
LedgerRoundTripAmended ==
    \A i \in alive :
        LET v == VisibleCount(luminary[i])
        IN  /\ (call.inst = i /\ call.op = "add_number" /\ call.n = 3
                    /\ call.before = <<v>>)
                => Len(number[i]) = 2
            /\ (call.inst = i /\ call.op = "remove_number" /\ call.n = 3
                    /\ call.before = <<v, 3, 3>>)
                => /\ Occurrences(number[i], 3) = 0
                   /\ number[i] = IF v = 3 THEN <<>> ELSE <<v>>

\* C3 witness: the two inserted 3's have just been removed from {v, 3, 3}
LedgerRoundTripSeen ==
    /\ 1 \in alive
    /\ call.inst = 1 /\ call.op = "remove_number" /\ call.n = 3
    /\ call.before = <<VisibleCount(luminary[1]), 3, 3>>
    /\ VisibleCount(luminary[1]) # 3
    /\ number[1] = <<VisibleCount(luminary[1])>>

\* C4: remove_number(n) leaves no occurrence of n, keeps the multiplicity
\* of every other value, raises nothing, and changes nothing when n is
\* absent; add_number(n) raises the multiplicity of n by one and keeps the
\* multiplicity of every other value.
LedgerMultiplicities ==
    \A i \in alive :
        LET values == Range(call.before) \cup Range(number[i]) \cup Numbers
        IN  /\ (call.inst = i /\ call.op = "remove_number")
                => /\ Occurrences(number[i], call.n) = 0
                   /\ \A m \in values \ {call.n} :
                        Occurrences(number[i], m) = Occurrences(call.before, m)
                   /\ call.error = "none"
                   /\ Occurrences(call.before, call.n) = 0
                        => number[i] = call.before
            /\ (call.inst = i /\ call.op = "add_number")
                => /\ Occurrences(number[i], call.n)
                        = Occurrences(call.before, call.n) + 1
                   /\ \A m \in values \ {call.n} :
                        Occurrences(number[i], m) = Occurrences(call.before, m)
                   /\ call.error = "none"

\* C4 witness: a value held twice has just been removed beside another one
BulkRemovalSeen ==
    /\ call.op = "remove_number"
    /\ Occurrences(call.before, call.n) = 2
    /\ Len(call.before) = 3
    /\ Len(number[call.inst]) = 1

NearestReferenceColor ==
    body # NoBody
    => /\ body.color \in Range(RefName)
       /\ \A k \in 1..Len(RefName) :
            RefName[k] = body.color
            => \A j \in 1..Len(RefName) :
                /\ Norm2(RefValue[k], body.rgb) <= Norm2(RefValue[j], body.rgb)
                /\ j < k
                    => Norm2(RefValue[k], body.rgb) < Norm2(RefValue[j], body.rgb)
       /\ \A j \in 1..Len(RefName) :
            body.rgb = RefValue[j] => body.color = RefName[j]

\* C6 witness: a triple as far from red as from blue, and nearer to them
\* than to the other three, has been classified
TiedColorSeen ==
    /\ body.rgb = <<100, 0, 100>>
    /\ Norm2(RefValue[2], body.rgb) = Norm2(RefValue[4], body.rgb)
    /\ body.color = "red"

\* C7: luminary[0] is the central body after any sequence of calls: its
\* distance is 0.00 and the smallest of the sequence, its rgb is
\* (255, 165, 0) whatever was drawn for index 0, and its color is "orange".
CentralBody ==
    \A i \in alive :
        /\ luminary[i][1].distance = 0
        /\ \A k \in 1..Len(luminary[i]) :
                luminary[i][1].distance <= luminary[i][k].distance
        /\ luminary[i][1].rgb = <<255, 165, 0>>
        /\ luminary[i][1].color = "orange"

\* C7 witness: after ledger calls, index 0 is orange although another
\* color was drawn for it
CentralBodySeen ==
    /\ 1 \in alive
    /\ call.op = "remove_number"
    /\ Len(number[1]) = 2
    /\ DescribeRgb(DrawnRgb(seed[1])[1]) # "orange"
    /\ luminary[1][1].color = "orange"

\* C8: every Luminary has visible = (distance <= 9.5), and right after
\* construction the ledger holds one element, the number of luminaries
\* whose visible is true.
VisibleLedger ==
    \A i \in alive :
        /\ \A k \in 1..Len(luminary[i]) :
                luminary[i][k].visible = (luminary[i][k].distance <= 950)
        /\ (call.op = "Cosmology" /\ call.inst = i)
            => /\ Len(number[i]) = 1
               /\ number[i][1] = VisibleCount(luminary[i])

\* C8 witness: an instance has just been constructed with a body out of
\* sight
HiddenBodySeen ==
    /\ call.op = "Cosmology"
    /\ call.inst \in alive
    /\ \E k \in 1..Len(luminary[call.inst]) : ~luminary[call.inst][k].visible
    /\ number[call.inst] # <<Len(luminary[call.inst])>>

\* C9: Cosmology(s).seed is s, and two instances constructed with the same
\* seed hold the same luminaries, element for element, whatever was
\* constructed or done to a ledger in between.
SeedDeterminism ==
    /\ (call.op = "Cosmology" /\ call.n # NoSeed) => seed[call.inst] = call.n
    /\ \A i, j \in alive :
            seed[i] = seed[j]
            => /\ Len(luminary[i]) = Len(luminary[j])
               /\ \A k \in 1..Len(luminary[i]) :
                    /\ luminary[i][k].distance = luminary[j][k].distance
                    /\ luminary[i][k].visible = luminary[j][k].visible
                    /\ luminary[i][k].rgb = luminary[j][k].rgb
                    /\ luminary[i][k].color = luminary[j][k].color

\* C9 witness: two instances of one seed, the second constructed with the
\* seed given, their ledgers having gone different ways
SameSeedSeen ==
    /\ alive = {1, 2}
    /\ seed[1] = seed[2]
    /\ call.op = "Cosmology" /\ call.inst = 2 /\ call.n = seed[1]
    /\ number[1] # number[2]

\* C10: assigning a single Event to an existing day stores it as a
\* one-element list, assigning a sequence of Events stores the sequence,
\* and assigning anything else fails with a TypeError naming the type and
\* leaves the slots and the day as they were.
DaySlotAssignment ==
    (tcall.op = "setitem" /\ tcall.key >= 0 /\ tcall.key < Len(tcall.event))
    => IF tcall.item.type = "Event"
       THEN /\ tcall.error = "none"
            /\ event[tcall.key + 1] = [type |-> "list", elems |-> tcall.item.elems]
       ELSE IF /\ tcall.item.type \in {"list", "tuple"}
               /\ Range(tcall.item.elems) \subseteq Events
       THEN /\ tcall.error = "none"
            /\ event[tcall.key + 1].elems = tcall.item.elems
       ELSE /\ tcall.error = "TypeError " \o tcall.item.type
            /\ event = tcall.event
            /\ value = tcall.value

====
